---- MODULE Spec2Model ----
(***************************************************************************)
(* State machine of src/views/HomeView.vue: the blueprint view.  A local   *)
(* image is loaded onto a plane of a three.js scene, pointer-downs on the  *)
(* container place points, a pointer-down near the first point closes the  *)
(* sequence into a filled polygon mesh, an overlay canvas shows the guide  *)
(* markers, and camera / renderer / overlay follow the container's size.   *)
(*                                                                         *)
(* Units.  The camera frustum is -w/2 .. w/2, so world coordinates are     *)
(* halves of integers.  Every world length of the model (camera.left,      *)
(* right, top, bottom, a point's wx and wy) is kept in HALF-UNITS, i.e.    *)
(* the stored integer is twice the JavaScript number.  Display lengths     *)
(* (dx, dy, client sizes, image sizes) are plain pixels.                   *)
(***************************************************************************)
EXTENDS Integers, Sequences, FiniteSets

VARIABLES
    phase,          \* "setup" (script ran), "mounted", "unmounted"
    win,            \* <<w, h>>: client size of the container (it fills the window)
    resizeQueued,   \* a resize event of the window waits to be dispatched
    resizeListener, \* resizeAll is registered on window "resize"
    camera,         \* [left, right, top, bottom] in half-units
    rendererSize,   \* <<w, h>> of the last renderer.setSize
    overlay,        \* the overlay canvas: [width, height, line, dots]
    points,         \* const points: Pt[]
    scene,          \* scene.children, in the order of scene.add
    planeMesh,      \* 0 = not assigned, else the file whose plane it is
    imgW, imgH,     \* let imgW = 0, imgH = 0
    files,          \* per selected file: "none", "loading", "loaded", "failed"
    liveUrls,       \* blob URLs created and not revoked (by file)
    animationId,    \* let animationId (0 = not assigned)
    pendingFrames,  \* handles of the animation-frame requests not yet run
    rafCount,       \* number of requestAnimationFrame calls made so far
    renders,        \* number of renderer.render calls made so far
    coordLabel,     \* the coordinate label: [text, left, top]
    lastError,      \* what the last handler raised: "none" or "TypeError"
    downs,          \* number of pointer-downs that have hit the plane
    budget          \* the inputs this run may be given (never changes)

vars == <<phase, win, resizeQueued, resizeListener, camera, rendererSize,
          overlay, points, scene, planeMesh, imgW, imgH, files, liveUrls,
          animationId, pendingFrames, rafCount, renders, coordLabel,
          lastError, downs, budget>>

----------------------------------------------------------------------------
(* Bounds of the model. *)

\* files the user selects in one run
MaxFiles == 2
\* frame callbacks the browser runs in one run
MaxFrames == 2
\* pointer-downs that hit the plane in one run
MaxDowns == 5

\* A run is either a drawing session (one file, many pointer-downs) or a
\* loading session (several files, pointer-moves, the render loop running):
\* the two kinds of run bound the inputs without multiplying them.
Profiles ==
    { [downs |-> MaxDowns, files |-> 1, frames |-> 0, moves |-> FALSE],
      [downs |-> 1, files |-> MaxFiles, frames |-> MaxFrames, moves |-> TRUE] }

\* client sizes the container takes (the window is resized between them)
Sizes == { <<80, 60>>, <<160, 120>> }

\* display positions (clientX - r.left, clientY - r.top) of pointer-downs.
\* In an 80 x 60 container with an up-to-date camera they are the world
\* points (-20, 20), (-10, 20), (10, 0) and (-36, 20).
ClickPos == { <<20, 10>>, <<30, 10>>, <<50, 30>>, <<4, 10>> }

\* display positions of pointer-moves
MovePos == { <<30, 10>>, <<4, 10>> }

\* pixel size <<width, height>> of the image decoded from file f
ImageSize(f) == IF f = 1 THEN <<62, 44>> ELSE <<124, 88>>

----------------------------------------------------------------------------
(* Program constants and pure helpers. *)

SNAP_DIST == 20

Abs(x) == IF x < 0 THEN -x ELSE x

\* type Pt = { dx, dy, wx, wy }; wx and wy in half-units
Pt(dx, dy, wx, wy) == [dx |-> dx, dy |-> dy, wx |-> wx, wy |-> wy]

NoCamera == [left |-> 0, right |-> 0, top |-> 0, bottom |-> 0]

\* new THREE.OrthographicCamera(-w/2, w/2, h/2, -h/2, ...) and the
\* assignments of resizeAll: the frustum of a w x h container, in half-units
Frustum(w, h) == [left |-> -w, right |-> w, top |-> h, bottom |-> -h]

\* raycaster.setFromCamera(pointer, camera) with pointer = (d/size)*2 - 1 and
\* the ray's meeting point with the plane z = 0, one axis at a time:
\* world = (lo + hi)/2 + ndc * (hi - lo)/2, ndc = (2d - size)/size.
\* lo, hi and the result are half-units; the division is exact for Sizes.
Unproject(d, size, lo, hi) ==
    ((lo + hi) * size + (2 * d - size) * (hi - lo)) \div (2 * size)

\* h.point of a pointer at display position pos, as <<wx, wy>> in half-units;
\* pointer.y = -(dy/r.height)*2 + 1 flips the vertical axis
WorldPoint(pos, r, cam) ==
    << Unproject(pos[1], r[1], cam.left, cam.right),
       Unproject(r[2] - pos[2], r[2], cam.bottom, cam.top) >>

\* raycaster.intersectObject(planeMesh)[0] is defined: the ray meets the
\* PlaneGeometry(imgW, imgH) of file f's plane, centred on the origin
Hits(f, wp) ==
    /\ Abs(wp[1]) <= ImageSize(f)[1]
    /\ Abs(wp[2]) <= ImageSize(f)[2]

\* Number.prototype.toFixed(0) of a non-negative number given in half-units
ToFixed0(x2) == (x2 + 1) \div 2

\* uv.x * imgW and (1 - uv.y) * imgH, rounded by toFixed(0); uv is the
\* position inside the plane of file f, from 0 to 1 on each axis
ImageCoords(f, wp, iw, ih) ==
    << ToFixed0(((wp[1] + ImageSize(f)[1]) * iw) \div ImageSize(f)[1]),
       ToFixed0(((ImageSize(f)[2] - wp[2]) * ih) \div ImageSize(f)[2]) >>

\* first.distanceTo(now) < SNAP_DIST, on half-unit coordinates
WithinSnap(first, now) ==
    LET ddx == first[1] - now[1]
        ddy == first[2] - now[2]
    IN  ddx * ddx + ddy * ddy < (2 * SNAP_DIST) * (2 * SNAP_DIST)

\* variants of ShouldClose with the length test off by one
ShouldCloseAfterFour(pts, wp) ==
    /\ Len(pts) > 3
    /\ WithinSnap(<<pts[1].wx, pts[1].wy>>, wp)

ShouldCloseAfterTwo(pts, wp) ==
    /\ Len(pts) >= 2
    /\ WithinSnap(<<pts[1].wx, pts[1].wy>>, wp)

\* the condition of onPointerDown under which the sequence is closed
ShouldClose(pts, wp) ==
    /\ Len(pts) >= 3
    /\ WithinSnap(<<pts[1].wx, pts[1].wy>>, wp)

\* variant of Outline that takes the display coordinates
OutlineOfDisplay(pts) == [i \in 1..Len(pts) |-> <<pts[i].dx, pts[i].dy>>]

\* points.map(p => new THREE.Vector2(p.wx, p.wy))
Outline(pts) == [i \in 1..Len(pts) |-> <<pts[i].wx, pts[i].wy>>]

\* the display coordinates of the points, in order
Display(pts) == [i \in 1..Len(pts) |-> <<pts[i].dx, pts[i].dy>>]

\* children of the scene
ShapeMesh(outline) == [kind |-> "shape", file |-> 0, outline |-> outline]
PlaneOf(f) == [kind |-> "plane", file |-> f, outline |-> <<>>]

\* an overlay canvas of the given size with nothing drawn on it; setting
\* canvas.width or canvas.height resets the bitmap, clearRect empties it
Blank(w, h) == [width |-> w, height |-> h, line |-> <<>>, dots |-> <<>>]

\* drawOverlay(): clear, stroke the path through the points when there is
\* more than one, then fill one dot per point
Drawn(ov, pts) ==
    [width |-> ov.width, height |-> ov.height,
     line |-> IF Len(pts) > 1 THEN Display(pts) ELSE <<>>,
     dots |-> Display(pts)]

\* coordLabel: textContent is "" (nothing yet), "dash" (the em dash) or
\* "coords" (the text "(ix, iy)"); left and top are style.left and style.top
NoLabel == [text |-> "", ix |-> 0, iy |-> 0, left |-> 0, top |-> 0]

----------------------------------------------------------------------------
(* The state after <script setup> has run and before the view is mounted. *)

Init ==
    /\ phase = "setup"
    /\ win \in Sizes
    /\ resizeQueued = FALSE
    /\ resizeListener = FALSE
    /\ camera = NoCamera
    /\ rendererSize = <<0, 0>>
    /\ overlay = Blank(0, 0)
    /\ points = <<>>
    /\ scene = <<>>
    /\ planeMesh = 0
    /\ imgW = 0
    /\ imgH = 0
    /\ files = [f \in 1..MaxFiles |-> "none"]
    /\ liveUrls = {}
    /\ animationId = 0
    /\ pendingFrames = {}
    /\ rafCount = 0
    /\ renders = 0
    /\ coordLabel = NoLabel
    /\ lastError = "none"
    /\ downs = 0
    /\ budget \in Profiles

----------------------------------------------------------------------------
(* resizeAll and the life cycle. *)

\* variant of ResizedCamera that takes top and bottom from the width
ResizedCameraSquare(w, h) == Frustum(w, w)

\* the camera after resizeAll in a w x h container
ResizedCamera(w, h) == Frustum(w, h)

\* the overlay canvas after resizeAll in a w x h container
ResizedOverlay(w, h) == Blank(w, h)

\* renderer.setSize(w, h)
ResizedRenderer(w, h) == <<w, h>>

\* onMounted: camera, renderer, overlay context, resizeAll(), the resize
\* listener, and the first run of loop() (one frame request, one render)
onMounted ==
    /\ phase = "setup"
    /\ phase' = "mounted"
    /\ camera' = ResizedCamera(win[1], win[2])
    /\ rendererSize' = ResizedRenderer(win[1], win[2])
    /\ overlay' = ResizedOverlay(win[1], win[2])
    /\ resizeListener' = TRUE
    /\ rafCount' = rafCount + 1
    /\ animationId' = rafCount + 1
    /\ pendingFrames' = pendingFrames \cup {rafCount + 1}
    /\ renders' = renders + 1
    /\ lastError' = "none"
    /\ UNCHANGED <<win, resizeQueued, points, scene, planeMesh, imgW, imgH,
                   files, liveUrls, coordLabel, downs, budget>>

\* variant of Cancelled that cancels nothing
CancelledNothing(pending, id) == pending

\* the handles cancelAnimationFrame(animationId) leaves pending
Cancelled(pending, id) == pending \ {id}

\* onUnmounted: the resize listener is removed, the frame request cancelled
onUnmounted ==
    /\ phase = "mounted"
    /\ phase' = "unmounted"
    /\ resizeListener' = FALSE
    /\ pendingFrames' = Cancelled(pendingFrames, animationId)
    /\ lastError' = "none"
    /\ UNCHANGED <<win, resizeQueued, camera, rendererSize, overlay, points,
                   scene, planeMesh, imgW, imgH, files, liveUrls, animationId,
                   rafCount, renders, coordLabel, downs, budget>>

\* the browser runs the frame callback of request h: loop() asks for the
\* next frame, stores its handle and renders
FrameCallback(h) ==
    /\ h \in pendingFrames
    /\ rafCount <= budget.frames
    /\ rafCount' = rafCount + 1
    /\ animationId' = rafCount + 1
    /\ pendingFrames' = (pendingFrames \ {h}) \cup {rafCount + 1}
    /\ renders' = renders + 1
    /\ lastError' = "none"
    /\ UNCHANGED <<phase, win, resizeQueued, resizeListener, camera,
                   rendererSize, overlay, points, scene, planeMesh, imgW, imgH,
                   files, liveUrls, coordLabel, downs, budget>>

\* the user resizes the window: the container takes the size s and the
\* browser queues a resize event
WindowResize(s) ==
    /\ phase # "setup"
    /\ s # win
    /\ win' = s
    /\ resizeQueued' = TRUE
    /\ UNCHANGED <<phase, resizeListener, camera, rendererSize, overlay,
                   points, scene, planeMesh, imgW, imgH, files, liveUrls,
                   animationId, pendingFrames, rafCount, renders, coordLabel,
                   lastError, downs, budget>>

\* the browser dispatches the queued resize event: resizeAll runs when it
\* is still registered, and returns at once when the container is gone
ResizeEvent ==
    /\ resizeQueued
    /\ resizeQueued' = FALSE
    /\ IF resizeListener /\ phase = "mounted"
       THEN /\ camera' = ResizedCamera(win[1], win[2])
            /\ rendererSize' = ResizedRenderer(win[1], win[2])
            /\ overlay' = ResizedOverlay(win[1], win[2])
            /\ lastError' = "none"
       ELSE UNCHANGED <<camera, rendererSize, overlay, lastError>>
    /\ UNCHANGED <<phase, win, resizeListener, points, scene, planeMesh, imgW,
                   imgH, files, liveUrls, animationId, pendingFrames, rafCount,
                   renders, coordLabel, downs, budget>>

----------------------------------------------------------------------------
(* Pointer handlers.  raycaster.intersectObject(planeMesh) reads            *)
(* planeMesh.layers: while planeMesh is not assigned the call raises a      *)
(* TypeError and the handler ends there.                                    *)

\* the label after a pointer-move at pos whose ray hits the plane at wp
HitLabel(pos, wp) ==
    LET ic == ImageCoords(planeMesh, wp, imgW, imgH)
    IN  [text |-> "coords", ix |-> ic[1], iy |-> ic[2],
         left |-> pos[1], top |-> pos[2] - 20]

\* the label after a pointer-move whose ray misses the plane: only the text
\* is replaced
MissLabel(label) == [label EXCEPT !.text = "dash", !.ix = 0, !.iy = 0]

onPointerMove(pos) ==
    /\ phase = "mounted"
    /\ budget.moves
    /\ IF planeMesh = 0
       THEN /\ lastError' = "TypeError"
            /\ UNCHANGED coordLabel
       ELSE LET wp == WorldPoint(pos, win, camera)
            IN  /\ lastError' = "none"
                /\ coordLabel' = IF Hits(planeMesh, wp)
                                 THEN HitLabel(pos, wp)
                                 ELSE MissLabel(coordLabel)
    /\ UNCHANGED <<phase, win, resizeQueued, resizeListener, camera,
                   rendererSize, overlay, points, scene, planeMesh, imgW, imgH,
                   files, liveUrls, animationId, pendingFrames, rafCount,
                   renders, downs, budget>>

\* createShape(): the mesh built from the points is added to the scene
ShapeAdded(sc, pts) == Append(sc, ShapeMesh(Outline(pts)))

\* createShape(): points.length = 0
PointsAfterShape(pts) == <<>>

\* variant of Pushed that stores the new point in front
PushedFront(pts, pos, wp) == <<Pt(pos[1], pos[2], wp[1], wp[2])>> \o pts

\* points.push({ dx, dy, wx: wp.x, wy: wp.y })
Pushed(pts, pos, wp) == Append(pts, Pt(pos[1], pos[2], wp[1], wp[2]))

onPointerDown(pos) ==
    /\ phase = "mounted"
    /\ downs < budget.downs
    /\ IF planeMesh = 0
       THEN /\ lastError' = "TypeError"
            /\ UNCHANGED <<points, scene, overlay, downs>>
       ELSE LET wp == WorldPoint(pos, win, camera)
            IN  /\ lastError' = "none"
                /\ IF ~Hits(planeMesh, wp)
                   THEN UNCHANGED <<points, scene, overlay, downs>>
                   ELSE /\ downs' = downs + 1
                        /\ IF ShouldClose(points, wp)
                           THEN /\ scene' = ShapeAdded(scene, points)
                                /\ overlay' = Blank(overlay.width, overlay.height)
                                /\ points' = PointsAfterShape(points)
                           ELSE /\ points' = Pushed(points, pos, wp)
                                /\ overlay' = Drawn(overlay, points')
                                /\ UNCHANGED scene
    /\ UNCHANGED <<phase, win, resizeQueued, resizeListener, camera,
                   rendererSize, planeMesh, imgW, imgH, files, liveUrls,
                   animationId, pendingFrames, rafCount, renders, coordLabel,
                   budget>>

----------------------------------------------------------------------------
(* Loading an image.  TextureLoader.load is given an onLoad callback and   *)
(* no onError callback.                                                     *)

\* the file the next change event of the input selects: files are numbered
\* in the order of their selection
NextFile == Cardinality({f \in 1..MaxFiles : files[f] # "none"}) + 1

\* onFileChange: with no file chosen it returns; otherwise a blob URL is
\* created and the load of the texture is started
onFileChange(chosen) ==
    /\ phase = "mounted"
    /\ IF chosen /\ NextFile <= budget.files
       THEN /\ files' = [files EXCEPT ![NextFile] = "loading"]
            /\ liveUrls' = liveUrls \cup {NextFile}
       ELSE UNCHANGED <<files, liveUrls>>
    /\ lastError' = "none"
    /\ UNCHANGED <<phase, win, resizeQueued, resizeListener, camera,
                   rendererSize, overlay, points, scene, planeMesh, imgW, imgH,
                   animationId, pendingFrames, rafCount, renders, coordLabel,
                   downs, budget>>

\* the onLoad callback of file f's load: the image's size, the new plane,
\* scene.add(planeMesh), URL.revokeObjectURL(url)
LoadDone(f) ==
    /\ files[f] = "loading"
    /\ files' = [files EXCEPT ![f] = "loaded"]
    /\ imgW' = ImageSize(f)[1]
    /\ imgH' = ImageSize(f)[2]
    /\ planeMesh' = f
    /\ scene' = Append(scene, PlaneOf(f))
    /\ liveUrls' = liveUrls \ {f}
    /\ lastError' = "none"
    /\ UNCHANGED <<phase, win, resizeQueued, resizeListener, camera,
                   rendererSize, overlay, points, animationId, pendingFrames,
                   rafCount, renders, coordLabel, downs, budget>>

\* the load of file f fails (the file does not decode as an image): no
\* callback of the view runs
LoadFail(f) ==
    /\ files[f] = "loading"
    /\ files' = [files EXCEPT ![f] = "failed"]
    /\ UNCHANGED <<phase, win, resizeQueued, resizeListener, camera,
                   rendererSize, overlay, points, scene, planeMesh, imgW, imgH,
                   liveUrls, animationId, pendingFrames, rafCount, renders,
                   coordLabel, lastError, downs, budget>>

----------------------------------------------------------------------------

Next ==
    \/ onMounted
    \/ onUnmounted
    \/ \E h \in 1..(MaxFrames + 1) : FrameCallback(h)
    \/ \E s \in Sizes : WindowResize(s)
    \/ ResizeEvent
    \/ \E pos \in MovePos : onPointerMove(pos)
    \/ \E pos \in ClickPos : onPointerDown(pos)
    \/ \E chosen \in BOOLEAN : onFileChange(chosen)
    \/ \E f \in 1..MaxFiles : LoadDone(f)
    \/ \E f \in 1..MaxFiles : LoadFail(f)

Spec == Init /\ [][Next]_vars

----------------------------------------------------------------------------
(* Vocabulary of the properties. *)

\* the world point of a pointer at pos in the current state
WorldAt(pos) == WorldPoint(pos, win, camera)

\* a pointer at pos hits the blueprint plane in the current state
HitsPlane(pos) == planeMesh # 0 /\ Hits(planeMesh, WorldAt(pos))

\* there is a first point, and the world point of a pointer at pos lies at
\* a distance of less than SNAP_DIST from it (squares of half-units)
NearFirst(pos) ==
    /\ Len(points) >= 1
    /\ LET wp == WorldAt(pos)
           ddx == points[1].wx - wp[1]
           ddy == points[1].wy - wp[2]
       IN  ddx * ddx + ddy * ddy < 4 * SNAP_DIST * SNAP_DIST

\* the step closes the sequence: one shape mesh more, no point stored
Closes ==
    /\ Len(scene') = Len(scene) + 1
    /\ scene'[Len(scene')].kind = "shape"
    /\ SubSeq(scene', 1, Len(scene)) = scene
    /\ points' = <<>>

\* the step stores the pointer at pos as one more point, at the end
Stores(pos) ==
    /\ Len(points') = Len(points) + 1
    /\ SubSeq(points', 1, Len(points)) = points
    /\ points'[Len(points')] =
           Pt(pos[1], pos[2], WorldAt(pos)[1], WorldAt(pos)[2])
    /\ scene' = scene

ShapesOf(sc) == {i \in 1..Len(sc) : sc[i].kind = "shape"}

----------------------------------------------------------------------------
(* C1, as stated: every pointer-down that hits the plane near the first    *)
(* point of the current sequence closes the sequence: one new mesh is      *)
(* added and the click is not stored.                                      *)
C1_SnapAlwaysCloses ==
    [][\A pos \in ClickPos :
          (onPointerDown(pos) /\ HitsPlane(pos) /\ NearFirst(pos)) => Closes]_vars

(* C1, amended: every pointer-down that hits the plane near the first      *)
(* point while at least 3 points are stored closes the sequence: one new   *)
(* mesh is added and the click is not stored.                              *)
C1_SnapClosesFromThreePoints ==
    [][\A pos \in ClickPos :
          (onPointerDown(pos) /\ HitsPlane(pos) /\ NearFirst(pos)
             /\ Len(points) >= 3) => Closes]_vars

\* a sequence has been closed by a click that was not stored, and the next
\* click is already stored
C1_Witness ==
    /\ ShapesOf(scene) # {}
    /\ Len(points) = 1
    /\ downs >= 5

(* C2: a step that adds a polygon mesh gives it the outline of the         *)
(* accumulated points' world coordinates (wx, wy), in clicking order and   *)
(* without the closing click, empties the point sequence and leaves the    *)
(* meshes already in the scene as they were.                               *)
C2_ClosureBuildsOutline ==
    [][(Len(scene') > Len(scene) /\ scene'[Len(scene')].kind = "shape") =>
          /\ Len(scene') = Len(scene) + 1
          /\ SubSeq(scene', 1, Len(scene)) = scene
          /\ scene'[Len(scene')].outline =
                 [i \in 1..Len(points) |-> <<points[i].wx, points[i].wy>>]
          /\ points' = <<>>]_vars

\* the scene holds a plane and then a polygon of three distinct corners
C2_Witness ==
    \E i \in ShapesOf(scene) :
        /\ i > 1
        /\ Len(scene[i].outline) = 3
        /\ Cardinality({scene[i].outline[k] : k \in 1..3}) = 3
        /\ points = <<>>

(* C3: while the view is mounted and no resize event waits, i.e. after     *)
(* the resizeAll of the mount and after every handled resize, the camera   *)
(* frustum is left = -w/2, right = w/2, top = h/2, bottom = -h/2 and the   *)
(* overlay canvas is w by h, for the container's client size w by h.       *)
C3_SizesFollowContainer ==
    (phase = "mounted" /\ ~resizeQueued) =>
        /\ camera.left = -win[1]
        /\ camera.right = win[1]
        /\ camera.top = win[2]
        /\ camera.bottom = -win[2]
        /\ overlay.width = win[1]
        /\ overlay.height = win[2]

\* a resize has been handled while a point was stored: the canvas was reset
C3_Witness ==
    /\ phase = "mounted"
    /\ ~resizeQueued
    /\ points # <<>>
    /\ overlay.dots = <<>>
    /\ overlay.width = 160

(* C4, as stated: once the load of a selected file has finished, with     *)
(* whatever outcome, the blob URL created for it has been released.        *)
C4_UrlReleasedAfterLoad ==
    \A f \in 1..MaxFiles :
        files[f] \in {"loaded", "failed"} => f \notin liveUrls

(* C5: while mounted at most one animation-frame request is pending and    *)
(* animationId is its handle; once unmounted no request is pending and     *)
(* the resize listener is gone, so no step renders, requests a frame or    *)
(* changes camera, renderer or overlay size.                               *)
C5_LoopReleasedOnUnmount ==
    [][/\ phase' = "mounted" =>
             /\ Cardinality(pendingFrames') <= 1
             /\ pendingFrames' \subseteq {animationId'}
       /\ phase' = "unmounted" =>
             /\ pendingFrames' = {}
             /\ ~resizeListener'
       /\ phase = "unmounted" =>
             /\ renders' = renders
             /\ rafCount' = rafCount
             /\ camera' = camera
             /\ rendererSize' = rendererSize
             /\ overlay' = overlay]_vars

\* unmounted after a frame callback has run, and a resize event has been
\* dispatched since without reaching resizeAll
C5_Witness ==
    /\ phase = "unmounted"
    /\ renders >= 2
    /\ ~resizeQueued
    /\ rendererSize # win

(* C6: every polygon mesh of the scene is built from at least 3 points,    *)
(* and a pointer-down that hits the plane within SNAP_DIST of the first    *)
(* point while fewer than 3 points are stored is stored as one more point. *)
C6_NoClosureBelowThreePoints ==
    [][/\ \A i \in ShapesOf(scene') : Len(scene'[i].outline) >= 3
       /\ \A pos \in ClickPos :
             (onPointerDown(pos) /\ HitsPlane(pos) /\ NearFirst(pos)
                /\ Len(points) < 3) => Stores(pos)]_vars

\* the same spot has been clicked twice and stored twice
C6_Witness ==
    /\ Len(points) = 2
    /\ points[1] = points[2]

(* C7: a pointer-down that hits the plane and does not close the sequence  *)
(* appends exactly its own point and keeps the earlier points, their order *)
(* and the scene; a pointer-down that does not hit the plane, and every    *)
(* pointer-move, leaves the point sequence and the scene unchanged.        *)
C7_PointerFrame ==
    [][/\ \A pos \in ClickPos :
             onPointerDown(pos) =>
                 \/ HitsPlane(pos) /\ Len(points) >= 3 /\ NearFirst(pos)
                 \/ HitsPlane(pos) /\ Stores(pos)
                 \/ ~HitsPlane(pos) /\ points' = points /\ scene' = scene
       /\ \A pos \in MovePos :
             onPointerMove(pos) => points' = points /\ scene' = scene]_vars

\* four points stored one after another, not all on the same spot
C7_Witness ==
    /\ Len(points) = 4
    /\ points[1] # points[4]
    /\ points[2] # points[3]

(* C8, as stated: while mounted, after every handler, the overlay shows    *)
(* exactly the guide markers of the point sequence: one dot per point and  *)
(* the line through them, nothing when the sequence is empty.              *)
C8_OverlayShowsMarkers ==
    phase = "mounted" =>
        /\ overlay.dots = [i \in 1..Len(points) |-> <<points[i].dx, points[i].dy>>]
        /\ overlay.line = IF Len(points) > 1
                          THEN [i \in 1..Len(points) |-> <<points[i].dx, points[i].dy>>]
                          ELSE <<>>

(* C9, as stated: after mount no pointer handler raises an error, and      *)
(* while no image is loaded no point is stored and no mesh is added.       *)
C9_PointerHandlersNeverThrow ==
    /\ lastError = "none"
    /\ planeMesh = 0 => points = <<>> /\ scene = <<>>

(* C10, as stated: imgW and imgH are the size of the image of the current  *)
(* planeMesh, and once every selected file has been loaded planeMesh is    *)
(* the plane of the file selected last.                                    *)
C10_PlaneOfLatestFile ==
    /\ planeMesh # 0 => <<imgW, imgH>> = ImageSize(planeMesh)
    /\ LET selected == {f \in 1..MaxFiles : files[f] # "none"}
       IN  (selected # {} /\ \A f \in selected : files[f] = "loaded") =>
               \A f \in selected : f <= planeMesh

====
